---- MODULE Spec2Model ----
(***************************************************************************)
(* A model of src/app.py, the Streamlit page "TTC Analysis": one run of    *)
(* the script is module initialisation (lines 10-16) followed by main()    *)
(* (lines 123-174).  Dropbox, the st.secrets store, the AgGrid component   *)
(* and the widgets are the environment: what they hand to the script is    *)
(* drawn from small sets and logged in `inputs`.                           *)
(*                                                                         *)
(* A cell is the text of a CSV field; pandas' reading of it is modelled by *)
(* ReadCell/Dtype.  A DataFrame is [columns, rows], rows being sequences   *)
(* of cells, one cell per column.                                          *)
(***************************************************************************)
EXTENDS Integers, Sequences, FiniteSets, TLC

VARIABLES
    pc,               \* the script's position in the run
    dbx,              \* the module global dbx: "unbound" or "client"
    messages,         \* what the run has shown through st.error / st.write
    exception,        \* the uncaught exception that ended the run, or "none"
    subfolders,       \* main's local `subfolders`
    csv_files,        \* main's local `csv_files`
    selected_file,    \* main's local `selected_file`
    df,               \* main's local `df`
    filtered_df,      \* main's local `filtered_df`
    download,         \* the arguments handed to st.download_button
    schema,           \* what visualize_schema wrote
    top_occurrences,  \* the series visualize_top_occurrences charted
    stages,           \* the stages of lines 151-170 that ran, in order
    n_downloads,      \* calls of dbx.files_download in this run
    tiePerm,          \* the build's order of equal counts in a sort (fixed)
    inputs,           \* the environment's answers consumed by this run
    prev              \* an earlier run of the same process: its inputs and outputs

vars == << pc, dbx, messages, exception, subfolders, csv_files, selected_file,
           df, filtered_df, download, schema, top_occurrences, stages,
           n_downloads, tiePerm, inputs, prev >>

---------------------------------------------------------------------------
(* Bounds of the model *)

\* rows of a CSV file served to main()
MaxRows == 2
\* rows of the column handed to the frequency aggregation on its own
MaxLen == 4
\* the largest top_n tried (the widget allows up to TopNMax)
MaxTopN == 3

(* Program constants *)
TopNMin == 1
TopNMax == 100

---------------------------------------------------------------------------
(* Cells and tables *)

NaN == "NaN"
\* the text an edit in the grid puts into a cell
EditedText == "z"

IntTexts == {"1", "2", "3"}

Min(a, b) == IF a < b THEN a ELSE b

SeqsUpTo(S, n) == UNION { [1..k -> S] : k \in 0..n }

\* pandas' default na_values: an empty field is read as NaN
ReadCell(text) == IF text = "" THEN NaN ELSE text

\* DataFrame.to_csv(na_rep=''): NaN is written as an empty field
WriteCell(cell) == IF cell = NaN THEN "" ELSE cell

EmptyDataFrame == [columns |-> <<>>, rows |-> <<>>]

ColIndex(d, name) == CHOOSE i \in DOMAIN d.columns : d.columns[i] = name

\* df[name]: the column as a sequence of cells
Column(d, name) == [r \in DOMAIN d.rows |-> d.rows[r][ColIndex(d, name)]]

ColumnNames(d) == { d.columns[i] : i \in DOMAIN d.columns }

DfEmpty_noColumns(d) == Len(d.columns) = 0

\* DataFrame.empty: any axis of length 0
DfEmpty(d) == Len(d.columns) = 0 \/ Len(d.rows) = 0

NonNull(col) == { i \in DOMAIN col : col[i] # NaN }

\* the dtype read_csv infers for a column
Dtype(col) ==
    IF \E i \in NonNull(col) : col[i] \notin IntTexts THEN "object"
    ELSE IF NonNull(col) = DOMAIN col THEN "int64"
    ELSE "float64"

---------------------------------------------------------------------------
(* Series.value_counts and head: src/app.py line 81 *)

RECURSIVE AscendingSeq(_)
\* the members of a set of integers, in ascending order
AscendingSeq(S) ==
    IF S = {} THEN <<>>
    ELSE LET m == CHOOSE x \in S : \A y \in S : x <= y
         IN  <<m>> \o AscendingSeq(S \ {m})

DropNa_keepna(col) == DOMAIN col

\* value_counts(dropna=True): the rows whose cell takes part in the count
DropNa(col) == NonNull(col)

\* the hash table's keys: one entry per distinct counted value, in the order
\* the values are first met, each with the number of counted rows holding it
CountKeys(col) ==
    LET live  == DropNa(col)
        first == { i \in live : \A j \in live : j < i => col[j] # col[i] }
        idx   == AscendingSeq(first)
    IN  [k \in DOMAIN idx |->
            [value |-> col[idx[k]],
             count |-> Cardinality({ i \in live : col[i] = col[idx[k]] })]]

SortedBefore_ascending(entries, perm, i, j) ==
    \/ entries[i].count < entries[j].count
    \/ entries[i].count = entries[j].count /\ perm[i] < perm[j]

\* whether entry i is placed before entry j by sort_values(ascending=False):
\* larger counts first; the sort is not a stable one, so equal counts come in
\* the order the build's sort leaves them in (perm)
SortedBefore(entries, perm, i, j) ==
    \/ entries[i].count > entries[j].count
    \/ entries[i].count = entries[j].count /\ perm[i] < perm[j]

SortValues(entries, perm) ==
    LET pos(i) == 1 + Cardinality({ j \in DOMAIN entries :
                                      SortedBefore(entries, perm, j, i) })
    IN  [k \in DOMAIN entries |->
            entries[CHOOSE i \in DOMAIN entries : pos(i) = k]]

\* Series.head(n)
SeriesHead(s, n) == SubSeq(s, 1, Min(n, Len(s)))

\* df[selected_column].value_counts().head(top_n)
TopOccurrences(d, name, top_n, perm) ==
    SeriesHead(SortValues(CountKeys(Column(d, name)), perm), top_n)

---------------------------------------------------------------------------
(* df.dtypes and df.describe(include='all'): src/app.py lines 69-72 *)

Describe(d) ==
    [i \in DOMAIN d.columns |->
        [name  |-> d.columns[i],
         dtype |-> Dtype(Column(d, d.columns[i])),
         count |-> Cardinality(NonNull(Column(d, d.columns[i])))]]

---------------------------------------------------------------------------
(* DataFrame.to_csv(index=False): src/app.py line 156 *)

ToCsv(d) ==
    [header |-> d.columns,
     lines  |-> [r \in DOMAIN d.rows |->
                    [c \in DOMAIN d.rows[r] |-> WriteCell(d.rows[r][c])]]]

---------------------------------------------------------------------------
(* The AgGrid component: src/app.py lines 45-64.  The grid is built with    *)
(* editable, sortable and filterable columns and returns its rows          *)
(* FILTERED_AND_SORTED: the state the user has put it in decides the data  *)
(* it answers with.                                                        *)

NoSort == [col |-> 0, dir |-> "none"]
NoEdit == [row |-> 0, col |-> 0]

\* the grid's ordering of cell texts in a sorted column
Rank(cell) ==
    CASE cell = NaN -> 0
      [] cell = "1" -> 1
      [] cell = "2" -> 2
      [] cell = "3" -> 3
      [] cell = "x" -> 4
      [] OTHER      -> 5

\* the states a user can put the grid in: the rows the column filters keep, at
\* most one sorted column, at most one edited cell
GridStates(d) ==
    { [keep |-> k, sort |-> s, edit |-> e] :
        k \in SUBSET (DOMAIN d.rows),
        s \in {NoSort} \cup { [col |-> c, dir |-> dr] :
                                c \in DOMAIN d.columns, dr \in {"asc", "desc"} },
        e \in {NoEdit} \cup { [row |-> r, col |-> c] :
                                r \in DOMAIN d.rows, c \in DOMAIN d.columns } }

EditRows(rows, e) ==
    [r \in DOMAIN rows |->
        IF e.row = r THEN [rows[r] EXCEPT ![e.col] = EditedText] ELSE rows[r]]

FilterRows(rows, keep) ==
    LET idx == AscendingSeq(keep)
    IN  [k \in DOMAIN idx |-> rows[idx[k]]]

SortRows(rows, s) ==
    IF s.dir = "none" THEN rows
    ELSE LET key(i) == Rank(rows[i][s.col])
             before(j, i) ==
                \/ (s.dir = "asc"  /\ key(j) < key(i))
                \/ (s.dir = "desc" /\ key(j) > key(i))
                \/ (key(j) = key(i) /\ j < i)
             pos(i) == 1 + Cardinality({ j \in DOMAIN rows : before(j, i) })
         IN  [k \in DOMAIN rows |-> rows[CHOOSE i \in DOMAIN rows : pos(i) = k]]

Reverse(s) == [i \in DOMAIN s |-> s[Len(s) + 1 - i]]

GridResponse_columnsReversed(d, g) ==
    [columns |-> Reverse(d.columns),
     rows    |-> LET rs == SortRows(FilterRows(EditRows(d.rows, g.edit), g.keep), g.sort)
                 IN  [r \in DOMAIN rs |-> Reverse(rs[r])]]

\* pd.DataFrame(grid_response['data'])
GridResponse(d, g) ==
    [columns |-> d.columns,
     rows    |-> SortRows(FilterRows(EditRows(d.rows, g.edit), g.keep), g.sort)]

---------------------------------------------------------------------------
(* The environment *)

\* what st.secrets holds for dropbox/DROPBOX_ACCESS_TOKEN: no such key, an
\* empty token, a token
Secrets == {"missing", "", "sl.token"}

Folder(n)  == [type |-> "folder",  stem |-> n, ext |-> ""]
File(n, e) == [type |-> "file",    stem |-> n, ext |-> e]
Deleted(n) == [type |-> "deleted", stem |-> n, ext |-> ""]

Listed(es)     == [kind |-> "ok", entries |-> es]
ListingFails   == [kind |-> "ApiError", entries |-> <<>>]
\* an exception of the client that is no ApiError (AuthError, a lost connection)
ListingBreaks  == [kind |-> "AuthError", entries |-> <<>>]

\* answers of files_list_folder('/Dumps')
DumpsListings ==
    { ListingFails, ListingBreaks, Listed(<<>>), Listed(<<File("readme", "txt")>>),
      Listed(<<Folder("2024"), File("readme", "txt"), Deleted("old")>>) }

\* answers of files_list_folder('/Dumps/<subfolder>')
SubfolderListings ==
    { ListingFails, ListingBreaks, Listed(<<>>), Listed(<<File("notes", "txt")>>),
      Listed(<<File("notes", "txt"), File("TRIPS", "CSV"), Folder("raw")>>) }

\* what files_download and read_csv meet at the path: no file (the download
\* raises), zero bytes (EmptyDataError), a row with more fields than the header
\* (ParserError), or a header line and rows of fields
Unavailable == [kind |-> "unavailable", header |-> <<>>, lines |-> <<>>]
ZeroBytes   == [kind |-> "empty",       header |-> <<>>, lines |-> <<>>]
Malformed   == [kind |-> "malformed",   header |-> <<"a", "b">>, lines |-> << <<"1", "x", "2">> >>]
Text(ls)    == [kind |-> "text",        header |-> <<"a", "b">>, lines |-> ls]

Lines == { <<a, b>> : a \in {"1", "2"}, b \in {"x", ""} }

Contents == {Unavailable, ZeroBytes, Malformed} \cup { Text(ls) : ls \in SeqsUpTo(Lines, MaxRows) }

TopNs == TopNMin .. Min(MaxTopN, TopNMax)

\* the orders a build's sort can leave equal counts in: a column of the model
\* holds at most three distinct values
TiePerms == { p \in [1..3 -> 1..3] : \A i, j \in 1..3 : i # j => p[i] # p[j] }

---------------------------------------------------------------------------
(* The functions of src/app.py *)

Error(t) == [kind |-> "error", text |-> t]
Write(t) == [kind |-> "write", text |-> t]

\* str.lower() on a file name's extension
Lower(ext) ==
    CASE ext = "CSV" -> "csv"
      [] ext = "TXT" -> "txt"
      [] OTHER       -> ext

\* f.lower().endswith('.csv')
IsCsv(f) == Lower(f.ext) = "csv"

\* list_dropbox_items(folder_path), given the client's answer.  The name dbx
\* is looked up inside the try block; only ApiError is caught.
ListDropboxItems(answer) ==
    IF dbx = "unbound" THEN
        [subfolders |-> <<>>, files |-> <<>>, errors |-> <<>>, raised |-> "NameError"]
    ELSE IF answer.kind = "ApiError" THEN
        [subfolders |-> <<>>, files |-> <<>>,
         errors |-> <<Error("Error accessing Dropbox folder")>>, raised |-> "none"]
    ELSE IF answer.kind # "ok" THEN
        [subfolders |-> <<>>, files |-> <<>>, errors |-> <<>>, raised |-> answer.kind]
    ELSE
        [subfolders |-> SelectSeq(answer.entries, LAMBDA e : e.type = "folder"),
         files      |-> SelectSeq(answer.entries, LAMBDA e : e.type = "file"),
         errors     |-> <<>>, raised |-> "none"]

\* pd.read_csv(io.BytesIO(res.content)) on a text with a header line
ReadCsv(content) ==
    [columns |-> content.header,
     rows    |-> [r \in DOMAIN content.lines |->
                    [c \in DOMAIN content.lines[r] |-> ReadCell(content.lines[r][c])]]]

LoadDropboxCsv_silent(content) ==
    IF content.kind = "text"
    THEN [df |-> ReadCsv(content), errors |-> <<>>]
    ELSE [df |-> EmptyDataFrame, errors |-> <<>>]

\* load_dropbox_csv(file_path), given what is at the path: every exception of
\* the download or of the parse is caught, reported, and answered with an
\* empty DataFrame
LoadDropboxCsv(content) ==
    IF content.kind = "text"
    THEN [df |-> ReadCsv(content), errors |-> <<>>]
    ELSE [df |-> EmptyDataFrame, errors |-> <<Error("Error loading CSV")>>]

StatsSource_filtered == filtered_df

\* the DataFrame main() hands to visualize_schema, visualize_top_occurrences
\* and the three chart functions (lines 162-170)
StatsSource == df

\* select_dtypes(include=['int64', 'float64']).columns.tolist()
NumericCols(d) ==
    SelectSeq(d.columns, LAMBDA n : Dtype(Column(d, n)) \in {"int64", "float64"})

\* select_dtypes(include=['object']).columns.tolist()
CategoricalCols(d) ==
    SelectSeq(d.columns, LAMBDA n : Dtype(Column(d, n)) = "object")

Range(s) == { s[i] : i \in DOMAIN s }

\* st.selectbox(label, options): one of the options, None when there is none
Selections(options) == IF Len(options) = 0 THEN {"None"} ELSE Range(options)

---------------------------------------------------------------------------
(* One run of the script *)

NoRun == [ran |-> FALSE, inputs |-> <<>>, messages |-> <<>>, exception |-> "none",
          download |-> <<>>, schema |-> <<>>, top_occurrences |-> <<>>]

\* what a run has produced: its messages, its end, the exported table and the
\* aggregates
ThisRun == [ran |-> TRUE, inputs |-> inputs, messages |-> messages,
            exception |-> exception, download |-> download, schema |-> schema,
            top_occurrences |-> top_occurrences]

\* the script's namespace before line 10: the name dbx is not bound
FreshGlobals == dbx = "unbound"

\* nothing shown yet, main()'s locals not assigned
FreshLocals ==
    /\ pc = "init"
    /\ messages = <<>>
    /\ exception = "none"
    /\ subfolders = <<>>
    /\ csv_files = <<>>
    /\ selected_file = <<>>
    /\ df = EmptyDataFrame
    /\ filtered_df = EmptyDataFrame
    /\ download = <<>>
    /\ schema = <<>>
    /\ top_occurrences = <<>>
    /\ stages = <<>>
    /\ n_downloads = 0
    /\ inputs = <<>>

\* the interpreter starting on the script
Fresh == FreshGlobals /\ FreshLocals

Boot(perms) ==
    /\ Fresh
    /\ tiePerm \in perms
    /\ prev = NoRun

Input(op, val) == [op |-> op, val |-> val]

Raise(e) ==
    /\ exception' = e
    /\ pc' = "crashed"

\* lines 10-16: the token is looked up, and dbx is bound when it is not empty
ModuleInit ==
    /\ pc = "init"
    /\ \E secret \in Secrets :
        /\ inputs' = Append(inputs, Input("secret", secret))
        /\ IF secret = "missing" THEN
                /\ Raise("KeyError")
                /\ UNCHANGED << dbx, messages >>
           ELSE IF secret = "" THEN
                /\ messages' = Append(messages, Error("Dropbox access token not found"))
                /\ pc' = "main"
                /\ UNCHANGED << dbx, exception >>
           ELSE
                /\ dbx' = "client"
                /\ pc' = "main"
                /\ UNCHANGED << messages, exception >>
    /\ UNCHANGED << subfolders, csv_files, selected_file, df, filtered_df, download,
                    schema, top_occurrences, stages, n_downloads, tiePerm, prev >>

\* lines 124-131 and 173-174: the subfolders of /Dumps.  With dbx unbound the
\* call raises before Dropbox is asked, and no answer is consumed.
MainListDumps ==
    /\ pc = "main"
    /\ \E answer \in IF dbx = "unbound" THEN {ListingBreaks} ELSE DumpsListings :
        LET got == ListDropboxItems(answer) IN
        /\ inputs' = IF dbx = "unbound" THEN inputs
                     ELSE Append(inputs, Input("list", answer))
        /\ IF got.raised # "none" THEN
                /\ Raise(got.raised)
                /\ UNCHANGED << messages, subfolders >>
           ELSE IF Len(got.subfolders) > 0 THEN
                /\ subfolders' = got.subfolders
                /\ messages' = messages \o got.errors
                /\ pc' = "sub"
                /\ UNCHANGED exception
           ELSE
                /\ subfolders' = got.subfolders
                /\ messages' = messages \o got.errors
                                \o <<Error("No subfolders found in the Dumps folder.")>>
                /\ pc' = "done"
                /\ UNCHANGED exception
    /\ UNCHANGED << dbx, csv_files, selected_file, df, filtered_df, download,
                    schema, top_occurrences, stages, n_downloads, tiePerm, prev >>

\* lines 132-142 and 171-172: the chosen subfolder's CSV files
MainListSubfolder ==
    /\ pc = "sub"
    /\ \E selected_subfolder \in Selections(subfolders) :
       \E answer \in SubfolderListings :
        LET got == ListDropboxItems(answer) IN
        /\ inputs' = inputs \o << Input("subfolder", selected_subfolder),
                                  Input("list", answer) >>
        /\ IF got.raised # "none" THEN
                /\ Raise(got.raised)
                /\ UNCHANGED << messages, csv_files >>
           ELSE
                /\ csv_files' = SelectSeq(got.files, IsCsv)
                /\ UNCHANGED exception
                /\ IF Len(csv_files') > 0 THEN
                        /\ messages' = messages \o got.errors
                        /\ pc' = "load"
                   ELSE
                        /\ messages' = messages \o got.errors
                            \o <<Error("No CSV files found in the selected subfolder.")>>
                        /\ pc' = "done"
    /\ UNCHANGED << dbx, subfolders, selected_file, df, filtered_df, download,
                    schema, top_occurrences, stages, n_downloads, tiePerm, prev >>

\* lines 142-150: the chosen file is downloaded and parsed; the stages below
\* run only on a DataFrame that is not empty
MainLoad(contents) ==
    /\ pc = "load"
    /\ \E file \in Selections(csv_files) :
       \E content \in contents :
        LET got == LoadDropboxCsv(content) IN
        /\ inputs' = inputs \o << Input("file", file), Input("download", content) >>
        /\ selected_file' = <<file>>
        /\ n_downloads' = n_downloads + 1
        /\ messages' = messages \o <<Write("Loading file from")>> \o got.errors
        /\ df' = got.df
        /\ pc' = IF DfEmpty(got.df) THEN "done" ELSE "grid"
    /\ UNCHANGED << dbx, exception, subfolders, csv_files, filtered_df, download,
                    schema, top_occurrences, stages, tiePerm, prev >>

DisplayTableWithFeatures_inPlace(states) ==
    /\ pc = "grid"
    /\ \E g \in GridStates(df) \cap states :
        /\ inputs' = Append(inputs, Input("grid", g))
        /\ filtered_df' = GridResponse(df, g)
        /\ df' = GridResponse(df, g)
    /\ stages' = Append(stages, "grid")
    /\ pc' = "download"
    /\ UNCHANGED << dbx, messages, exception, subfolders, csv_files, selected_file,
                    download, schema, top_occurrences, n_downloads, tiePerm, prev >>

\* line 151, display_table_with_features(df): the grid shows df and answers
\* with its own rows
DisplayTableWithFeatures(states) ==
    /\ pc = "grid"
    /\ \E g \in GridStates(df) \cap states :
        /\ inputs' = Append(inputs, Input("grid", g))
        /\ filtered_df' = GridResponse(df, g)
    /\ stages' = Append(stages, "grid")
    /\ pc' = "download"
    /\ UNCHANGED << dbx, messages, exception, subfolders, csv_files, selected_file,
                    df, download, schema, top_occurrences, n_downloads, tiePerm, prev >>

\* lines 154-159, st.download_button
DownloadButton ==
    /\ pc = "download"
    /\ download' = << [file_name |-> <<"filtered_", selected_file[1]>>,
                       data      |-> ToCsv(filtered_df)] >>
    /\ stages' = Append(stages, "download")
    /\ pc' = "schema"
    /\ UNCHANGED << dbx, messages, exception, subfolders, csv_files, selected_file,
                    df, filtered_df, schema, top_occurrences, n_downloads, tiePerm,
                    inputs, prev >>

\* line 162, visualize_schema
VisualizeSchema ==
    /\ pc = "schema"
    /\ schema' = << Describe(StatsSource) >>
    /\ stages' = Append(stages, "schema")
    /\ pc' = "top"
    /\ UNCHANGED << dbx, messages, exception, subfolders, csv_files, selected_file,
                    df, filtered_df, download, top_occurrences, n_downloads, tiePerm,
                    inputs, prev >>

\* line 165, visualize_top_occurrences: the column is one of the DataFrame's,
\* top_n is within the number_input's range
VisualizeTopOccurrences(ns) ==
    /\ pc = "top"
    /\ \E selected_column \in Selections(StatsSource.columns) :
       \E top_n \in ns :
        /\ inputs' = Append(inputs, Input("top", <<selected_column, top_n>>))
        /\ top_occurrences' =
              << [column |-> selected_column,
                  top_n  |-> top_n,
                  series |-> TopOccurrences(StatsSource, selected_column, top_n,
                                            tiePerm)] >>
    /\ stages' = Append(stages, "top")
    /\ pc' = "hist"
    /\ UNCHANGED << dbx, messages, exception, subfolders, csv_files, selected_file,
                    df, filtered_df, download, schema, n_downloads, tiePerm, prev >>

Chart(at, next) ==
    /\ pc = at
    /\ stages' = Append(stages, at)
    /\ pc' = next
    /\ UNCHANGED << dbx, messages, exception, subfolders, csv_files, selected_file,
                    df, filtered_df, download, schema, top_occurrences, n_downloads,
                    tiePerm, inputs, prev >>

\* line 168, visualize_histogram: a numeric column, when there is one, is drawn
VisualizeHistogram ==
    \E selected_numeric_col \in Selections(NumericCols(StatsSource)) :
        Chart("hist", "pie")

\* line 169, visualize_pie_chart: a categorical column, when there is one
VisualizePieChart ==
    \E selected_categorical_col \in Selections(CategoricalCols(StatsSource)) :
        Chart("pie", "scatter")

\* line 170, visualize_scatter_plot: two numeric columns, when there are any
VisualizeScatterPlot ==
    \E x_axis \in Selections(NumericCols(StatsSource)) :
    \E y_axis \in Selections(NumericCols(StatsSource)) :
        Chart("scatter", "done")

\* main() is entered anew: nothing shown yet, its locals not assigned
RestartLocals ==
    /\ pc' = "init"
    /\ messages' = <<>>
    /\ exception' = "none"
    /\ subfolders' = <<>>
    /\ csv_files' = <<>>
    /\ selected_file' = <<>>
    /\ df' = EmptyDataFrame
    /\ filtered_df' = EmptyDataFrame
    /\ download' = <<>>
    /\ schema' = <<>>
    /\ top_occurrences' = <<>>
    /\ stages' = <<>>
    /\ n_downloads' = 0
    /\ inputs' = <<>>

Rerun_KeepGlobals ==
    /\ pc \in {"done", "crashed"}
    /\ prev' \in {prev, ThisRun}
    /\ RestartLocals
    /\ UNCHANGED << dbx, tiePerm >>

\* a user action: Streamlit runs the script again from its first line, in a
\* new namespace, in which dbx is not bound until line 14 binds it
Rerun ==
    /\ pc \in {"done", "crashed"}
    /\ prev' \in {prev, ThisRun}
    /\ RestartLocals
    /\ dbx' = "unbound"
    /\ UNCHANGED tiePerm

---------------------------------------------------------------------------
(* Specifications *)

\* the orders of equal counts that differ on a column of Contents, which
\* holds at most two distinct values
MainPerms == { <<1, 2, 3>>, <<2, 1, 3>> }

Init == Boot(MainPerms)

Next ==
    \/ ModuleInit
    \/ MainListDumps
    \/ MainListSubfolder
    \/ MainLoad(Contents)
    \/ DisplayTableWithFeatures(GridStates(df))
    \/ DownloadButton
    \/ VisualizeSchema
    \/ VisualizeTopOccurrences(TopNs)
    \/ VisualizeHistogram
    \/ VisualizePieChart
    \/ VisualizeScatterPlot

\* one run of the application
Spec == Init /\ [][Next]_vars

---------------------------------------------------------------------------
(* The frequency aggregation on its own: main() has loaded a table, shown   *)
(* it unfiltered and described it, and visualize_top_occurrences is next.  *)

FreqLines == { <<a, "x">> : a \in {"1", "2", "3", ""} }

FreqContents == { Text(ls) : ls \in SeqsUpTo(FreqLines, MaxLen) \ {<<>>} }

Unfiltered(d) == [keep |-> DOMAIN d.rows, sort |-> NoSort, edit |-> NoEdit]

InitFreq ==
    \E content \in FreqContents :
        LET dumps  == Listed(<<Folder("2024"), File("readme", "txt"), Deleted("old")>>)
            sub    == Listed(<<File("notes", "txt"), File("TRIPS", "CSV"), Folder("raw")>>)
            loaded == ReadCsv(content)
            shown  == GridResponse(loaded, Unfiltered(loaded))
        IN  /\ pc = "top"
            /\ dbx = "client"
            /\ messages = <<Write("Loading file from")>>
            /\ exception = "none"
            /\ subfolders = <<Folder("2024")>>
            /\ csv_files = <<File("TRIPS", "CSV")>>
            /\ selected_file = <<File("TRIPS", "CSV")>>
            /\ df = loaded
            /\ filtered_df = shown
            /\ download = << [file_name |-> <<"filtered_", File("TRIPS", "CSV")>>,
                              data      |-> ToCsv(shown)] >>
            /\ schema = << Describe(loaded) >>
            /\ top_occurrences = <<>>
            /\ stages = <<"grid", "download", "schema">>
            /\ n_downloads = 1
            /\ tiePerm \in TiePerms
            /\ inputs = << Input("secret", "sl.token"), Input("list", dumps),
                           Input("subfolder", Folder("2024")), Input("list", sub),
                           Input("file", File("TRIPS", "CSV")),
                           Input("download", content),
                           Input("grid", Unfiltered(loaded)) >>
            /\ prev = NoRun

NextFreq ==
    \/ VisualizeTopOccurrences(TopNs)
    \/ VisualizeHistogram
    \/ VisualizePieChart
    \/ VisualizeScatterPlot

SpecFreq == InitFreq /\ [][NextFreq]_vars

---------------------------------------------------------------------------
(* Runs of the script one after another in one Streamlit process *)

RunTable == Text(<< <<"1", "x">>, <<"2", "">> >>)

RunContents == { Unavailable, Text(<<>>), RunTable }

RunGridStates ==
    { g \in GridStates(ReadCsv(RunTable)) :
        g.edit = NoEdit /\ g.sort.col # 2 /\ g.keep \in {{1, 2}, {2}} }

RunTopNs == TopNMin .. 2

NextRuns ==
    \/ ModuleInit
    \/ MainListDumps
    \/ MainListSubfolder
    \/ MainLoad(RunContents)
    \/ DisplayTableWithFeatures(RunGridStates)
    \/ DownloadButton
    \/ VisualizeSchema
    \/ VisualizeTopOccurrences(RunTopNs)
    \/ VisualizeHistogram
    \/ VisualizePieChart
    \/ VisualizeScatterPlot
    \/ Rerun

SpecRuns == Init /\ [][NextRuns]_vars

---------------------------------------------------------------------------
(* What the properties below speak of *)

\* how often a value stands in a column
Occurrences(col, v) == Cardinality({ i \in DOMAIN col : col[i] = v })

\* the distinct non-null values of a column
DistinctValues(col) == { col[i] : i \in DOMAIN col } \ {NaN}

\* the first row of a column that holds the value
FirstAppearance(col, v) ==
    CHOOSE i \in DOMAIN col : col[i] = v /\ \A j \in DOMAIN col : j < i => col[j] # v

RECURSIVE SumCounts(_)
SumCounts(s) == IF Len(s) = 0 THEN 0 ELSE s[1].count + SumCounts(Tail(s))

SeriesValues(s) == { s[k].value : k \in DOMAIN s }

\* the frequency table is that of the named column of table d, cut to top_n:
\* its pairs are distinct values of the column with their numbers of
\* occurrences, in descending order of count, and no value left out occurs
\* more often than one that is in it
FrequencyTableOf(d, t) ==
    LET col == Column(d, t.column)
        s   == t.series
    IN  /\ Len(s) = Min(t.top_n, Cardinality(DistinctValues(col)))
        /\ \A k \in DOMAIN s :
            /\ s[k].value \in DistinctValues(col)
            /\ s[k].count = Occurrences(col, s[k].value)
        /\ \A k, l \in DOMAIN s : k # l => s[k].value # s[l].value
        /\ \A k, l \in DOMAIN s : k < l => s[k].count >= s[l].count
        /\ \A v \in DistinctValues(col) \ SeriesValues(s) :
            \A k \in DOMAIN s : s[k].count >= Occurrences(col, v)

\* equal counts stand in the order in which their values first appear
TiesByFirstAppearance(d, t) ==
    LET col == Column(d, t.column)
        s   == t.series
    IN  /\ \A k, l \in DOMAIN s :
            k < l /\ s[k].count = s[l].count =>
                FirstAppearance(col, s[k].value) < FirstAppearance(col, s[l].value)
        /\ \A v \in DistinctValues(col) \ SeriesValues(s) :
            \A k \in DOMAIN s :
                s[k].count = Occurrences(col, v) =>
                    FirstAppearance(col, s[k].value) < FirstAppearance(col, v)

Counted == Len(top_occurrences) = 1

StageOrder == <<"grid", "download", "schema", "top", "hist", "pie", "scatter">>

IsPrefix(s, t) == Len(s) <= Len(t) /\ \A i \in DOMAIN s : s[i] = t[i]

HasInput(op) == \E i \in DOMAIN inputs : inputs[i].op = op

InputOf(op) == inputs[CHOOSE i \in DOMAIN inputs : inputs[i].op = op].val

\* the download or the parse of the chosen file failed in this run
LoadFailed == HasInput("download") /\ InputOf("download").kind # "text"

\* the chosen file parsed to a header and no data row
HeaderOnly ==
    /\ HasInput("download")
    /\ InputOf("download").kind = "text"
    /\ Len(InputOf("download").lines) = 0

ErrorsShown == { i \in DOMAIN messages : messages[i].kind = "error" }

\* rows is rows0 with some rows left out, the others in their order and unchanged
IsRowSubset(rows, rows0) ==
    \E keep \in SUBSET (DOMAIN rows0) :
        LET idx == AscendingSeq(keep)
        IN  /\ Len(rows) = Len(idx)
            /\ \A k \in DOMAIN rows : rows[k] = rows0[idx[k]]

\* each row of rows comes from a row of rows0 of its own, equal to it but for
\* cells holding the text of an edit
RowsComeFrom(rows, rows0) ==
    \E f \in [DOMAIN rows -> DOMAIN rows0] :
        /\ \A k, l \in DOMAIN rows : k # l => f[k] # f[l]
        /\ \A k \in DOMAIN rows :
            /\ Len(rows[k]) = Len(rows0[f[k]])
            /\ \A c \in DOMAIN rows[k] :
                rows[k][c] = rows0[f[k]][c] \/ rows[k][c] = EditedText

---------------------------------------------------------------------------
(* The claims *)

\* C1, as stated: the frequency table holds the column's distinct non-null
\* values with their counts, by count descending, equal counts in the order of
\* first appearance, cut to top_n and never padded.
C1_TiesInFirstAppearanceOrder ==
    Counted => /\ FrequencyTableOf(df, top_occurrences[1])
               /\ TiesByFirstAppearance(df, top_occurrences[1])

\* C1, amended: the frequency table holds the column's distinct non-null
\* values with their counts, by count descending, cut to top_n and never
\* padded; the order among equal counts is not fixed.
C1_FrequencyTable ==
    Counted => FrequencyTableOf(df, top_occurrences[1])

\* C1's case: the cut leaves values out, a value met later stands before one
\* met earlier because it occurs more often, and a value left out ties with
\* one that is in
C1_Witness ==
    /\ Counted
    /\ LET t   == top_occurrences[1]
           col == Column(df, t.column)
           s   == t.series
       IN  /\ Len(s) = t.top_n
           /\ t.top_n < Cardinality(DistinctValues(col))
           /\ \E k, l \in DOMAIN s :
                /\ k < l
                /\ s[k].count > s[l].count
                /\ FirstAppearance(col, s[k].value) > FirstAppearance(col, s[l].value)
           /\ \E v \in DistinctValues(col) \ SeriesValues(s) :
                s[Len(s)].count = Occurrences(col, v)

\* C2: the counts of the frequency table sum to the column's non-null count
\* when top_n is at least the number of distinct values and to at most that
\* otherwise; a null cell gives no pair and no count.
C2_CountsSumToNonNull ==
    Counted =>
        LET t   == top_occurrences[1]
            col == Column(df, t.column)
        IN  /\ t.top_n >= Cardinality(DistinctValues(col)) =>
                SumCounts(t.series) = Cardinality(NonNull(col))
            /\ SumCounts(t.series) <= Cardinality(NonNull(col))
            /\ \A k \in DOMAIN t.series : t.series[k].value # NaN

\* C2's case: a column with null cells and two distinct values, counted whole
C2_Witness ==
    /\ Counted
    /\ LET t   == top_occurrences[1]
           col == Column(df, t.column)
       IN  /\ NonNull(col) # DOMAIN col
           /\ Cardinality(DistinctValues(col)) >= 2
           /\ t.top_n >= Cardinality(DistinctValues(col))
           /\ SumCounts(t.series) = Cardinality(NonNull(col))

\* C3: when the download or the parse fails, one error message is shown, load
\* answers with no table, none of the later stages runs, and the download is
\* tried once.
C3_FailedLoadStops ==
    LoadFailed =>
        /\ Cardinality({ i \in DOMAIN messages :
                           messages[i] = Error("Error loading CSV") }) = 1
        /\ df = EmptyDataFrame
        /\ stages = <<>>
        /\ filtered_df = EmptyDataFrame
        /\ download = <<>> /\ schema = <<>> /\ top_occurrences = <<>>
        /\ n_downloads = 1
        /\ pc = "done"
        /\ exception = "none"

\* C3's case: a file whose bytes do not parse has been loaded
C3_Witness ==
    /\ LoadFailed
    /\ InputOf("download").kind = "malformed"
    /\ pc = "done"

\* C4: whatever the token lookup, the listings, the download and the parse
\* answer, the run never ends with an uncaught exception.
C4_NoUncaughtException == pc # "crashed"

\* C5: once loaded, the table keeps its columns, rows and cells through every
\* stage of the run.
C5_LoadedTableImmutable ==
    [][(pc \in {"grid", "download", "schema", "top", "hist", "pie", "scatter"})
            => (df' = df)]_vars

\* C5's case: all stages have run and the grid has answered with another
\* table than the loaded one
C5_Witness ==
    /\ pc = "done"
    /\ stages = StageOrder
    /\ filtered_df # df
    /\ df = ReadCsv(InputOf("download"))

\* C6, as stated: the table the grid stage answers with is a row-subset of the
\* loaded table: the same columns in the same order, its rows rows of the
\* loaded table with unchanged cells, in their original relative order.
C6_RowSubsetInOrder ==
    Len(stages) > 0 =>
        /\ filtered_df.columns = df.columns
        /\ IsRowSubset(filtered_df.rows, df.rows)

\* C6, amended: the table the grid stage answers with, which is the one that
\* is exported, has the loaded table's columns in the same order and no more
\* rows than it; each of its rows comes from a loaded row of its own, changed
\* only where the user edited a cell, and it is a row-subset in the original
\* order when the grid is neither sorted nor edited.
C6_GridAnswer ==
    Len(stages) > 0 =>
        /\ filtered_df.columns = df.columns
        /\ Len(filtered_df.rows) <= Len(df.rows)
        /\ RowsComeFrom(filtered_df.rows, df.rows)
        /\ InputOf("grid").edit = NoEdit =>
                \A k \in DOMAIN filtered_df.rows :
                    \E r \in DOMAIN df.rows : filtered_df.rows[k] = df.rows[r]
        /\ InputOf("grid").edit = NoEdit /\ InputOf("grid").sort = NoSort =>
                IsRowSubset(filtered_df.rows, df.rows)
        /\ Len(download) = 1 =>
                /\ download[1].data.header = filtered_df.columns
                /\ Len(download[1].data.lines) = Len(filtered_df.rows)

\* C6's case: the grid, sorted, has answered with the loaded rows in another
\* order, and that table has been exported
C6_Witness ==
    /\ Len(download) = 1
    /\ InputOf("grid").sort # NoSort
    /\ InputOf("grid").edit = NoEdit
    /\ Len(filtered_df.rows) = Len(df.rows)
    /\ ~ IsRowSubset(filtered_df.rows, df.rows)

\* what visualize_schema wrote describes table d: one entry per column, with
\* the column's non-null count
SchemaOf(d) ==
    /\ Len(schema[1]) = Len(d.columns)
    /\ \A i \in DOMAIN schema[1] :
        /\ schema[1][i].name = d.columns[i]
        /\ schema[1][i].count = Cardinality(NonNull(Column(d, d.columns[i])))

\* the stages run in the order of lines 151-170, after one load
StagesInOrder ==
    /\ IsPrefix(stages, StageOrder)
    /\ Len(stages) > 0 => HasInput("download") /\ n_downloads = 1
    /\ Len(schema) = 1 <=> Len(stages) >= 3
    /\ Counted <=> Len(stages) >= 4

\* C7, as stated: the stages run in the order load, filter, describe / top
\* occurrences, and describe and top occurrences are computed on the table the
\* filter stage answered with.
C7_StatsOnFilterOutput ==
    /\ StagesInOrder
    /\ Len(schema) = 1 => SchemaOf(filtered_df)
    /\ Counted => FrequencyTableOf(filtered_df, top_occurrences[1])

\* C7, amended: the stages run in the order load, filter, export, describe,
\* top occurrences, charts, and describe and top occurrences are computed on
\* the loaded table, whatever the filter stage answered with.
C7_StatsOnLoadedTable ==
    /\ StagesInOrder
    /\ Len(schema) = 1 => SchemaOf(df)
    /\ Counted => FrequencyTableOf(df, top_occurrences[1])

\* C7's case: the grid has filtered rows out, and the aggregates are those of
\* the loaded table and not those of the filtered one
C7_Witness ==
    /\ Counted
    /\ InputOf("grid").keep # DOMAIN df.rows
    /\ SchemaOf(df) /\ ~ SchemaOf(filtered_df)
    /\ ~ FrequencyTableOf(filtered_df, top_occurrences[1])

\* C9: a finished run whose inputs are those of an earlier finished run shows
\* the same messages, ends the same way and gives the same exported table and
\* aggregates, whatever ran in between.  (Inputs are consumed as the run goes:
\* two runs are given the same inputs when the answers one consumed begin the
\* answers the other consumed.)
C9_RunsRepeat ==
    ( /\ pc \in {"done", "crashed"}
      /\ prev.ran
      /\ IsPrefix(prev.inputs, inputs) \/ IsPrefix(inputs, prev.inputs) )
    => prev = ThisRun

\* C9's case: a run through all stages after an earlier run with the same
\* inputs
C9_Witness ==
    /\ pc = "done"
    /\ prev.ran
    /\ prev.inputs = inputs
    /\ stages = StageOrder
    /\ Len(prev.top_occurrences) = 1
    /\ Len(inputs) = 8

\* C10: the stages run only on a loaded table with at least one row and one
\* column; a file that parses to a header and no data row ends the run like a
\* failed load, with no error message shown.
C10_StagesNeedRows ==
    /\ Len(stages) > 0 => Len(df.rows) >= 1 /\ Len(df.columns) >= 1
    /\ HeaderOnly =>
        /\ df = [columns |-> InputOf("download").header, rows |-> <<>>]
        /\ stages = <<>>
        /\ download = <<>> /\ schema = <<>> /\ top_occurrences = <<>>
        /\ ErrorsShown = {}
        /\ exception = "none"
        /\ pc = "done"

\* C10's case: a header-only file has been loaded
C10_Witness ==
    /\ HeaderOnly
    /\ pc = "done"
    /\ Len(df.columns) = 2

====
